---- MODULE Spec2Model ----
(***************************************************************************)
(* A model of UnpackORM.py: the image normaliser, the channel unpacker     *)
(* (unpack_orm) working on a filesystem, and the batch drivers             *)
(* (UnpackORMApp.process_texture and run_cli) that walk a directory tree.  *)
(***************************************************************************)
EXTENDS Integers, Sequences, FiniteSets, TLC

VARIABLES
    fs,          \* the files: a function from path to file content
    dirs,        \* the directories that exist
    readonly,    \* the directories no file can be written into
    pc,          \* where the running call is
    req,         \* the request of the running call
    result,      \* what unpack_orm returned last: (ao, rough, metal, height)
    err,         \* the exception that ended the call, or NoErr
    loaded,      \* the image unpack_orm's last call got from load_image_rgb_or_rgba
    fs0,         \* the files before the call
    dirs0,       \* the directories before the call
    stack,       \* os.walk: the directories still to scan
    pending,     \* os.walk: the names listed in the scanned directory, not yet iterated
    discovered,  \* how many times the batch loop was handed each path
    processed,   \* how many unpack_orm calls on each path returned
    firstPath,   \* the first path the batch loop was handed, or NoPath
    lastRead,    \* per base name, what the last call that returned had read
    count,       \* the batch's count
    first        \* the result handed to update_preview, or NoResult

vars == <<fs, dirs, readonly, pc, req, result, err, loaded, fs0, dirs0,
          stack, pending, discovered, processed, firstPath, lastRead, count, first>>

----------------------------------------------------------------------------
(* Bounds *)

\* pixels of an input image of the single-file specification
MaxPix == 2
\* files in the directory tree of a batch
MaxFiles == 2

\* calls of unpack_orm in one batch: a cap no batch of the model reaches
MaxCalls == 8

\* the largest 8-bit sample: maybe_invert computes MaxSample - px
MaxSample == 255

----------------------------------------------------------------------------
(* Images as PIL decodes them: a mode, the pixels (one tuple of band values *)
(* each), and for a palette image the index info["transparency"] names.     *)

\* info["transparency"] of an image that has none: no index is transparent
NoTrns == {}

\* the palette of the P and PA images: index i (from 0) is Palette[i + 1]
Palette == << <<10, 20, 30>>, <<200, 100, 50>> >>

PaletteIdx == 0 .. (Len(Palette) - 1)

Corrupt == [kind |-> "corrupt", mode |-> "", px |-> <<>>, trns |-> NoTrns]

Img(mode, px, trns) == [kind |-> "image", mode |-> mode, px |-> px, trns |-> trns]

\* the pixels the input images are built from, per mode
PixelsOf(mode) ==
    CASE mode = "1"    -> {<<0>>, <<MaxSample>>}
      [] mode = "L"    -> {<<10>>, <<MaxSample>>}
      [] mode = "LA"   -> {<<10, 40>>, <<MaxSample, MaxSample>>, <<10, 0>>}
      [] mode = "P"    -> {<<i>> : i \in PaletteIdx}
      [] mode = "PA"   -> {<<0, 40>>, <<1, MaxSample>>, <<0, 0>>}
      [] mode = "RGB"  -> {<<10, 20, 30>>, <<MaxSample, 0, 128>>, <<10, 10, 10>>}
      [] mode = "RGBA" -> {<<10, 20, 30, 40>>, <<MaxSample, 0, 128, MaxSample>>,
                           <<10, 10, 10, 0>>}

NativeModes == {"1", "L", "LA", "P", "PA", "RGB", "RGBA"}

\* the modes that hold an alpha band
AlphaModes == {"LA", "PA", "RGBA"}

SeqsUpTo(S, n) == UNION {[1 .. k -> S] : k \in 1 .. n}

ImagesOf(mode, n) ==
    {Img(mode, px, t) : px \in SeqsUpTo(PixelsOf(mode), n),
                        t \in IF mode = "P" THEN {NoTrns} \cup {{i} : i \in PaletteIdx}
                                             ELSE {NoTrns}}

Images(n) == UNION {ImagesOf(m, n) : m \in NativeModes}

----------------------------------------------------------------------------
(* Image.convert, for the conversions load_image_rgb_or_rgba asks for *)

\* one pixel of `img` as RGBA
PixelToRGBA(img, p) ==
    CASE img.mode = "P"    -> Palette[p[1] + 1] \o <<IF p[1] \in img.trns THEN 0 ELSE MaxSample>>
      [] img.mode = "LA"   -> <<p[1], p[1], p[1], p[2]>>
      [] img.mode = "PA"   -> Palette[p[1] + 1] \o <<p[2]>>
      [] img.mode = "RGB"  -> p \o <<MaxSample>>
      [] img.mode = "RGBA" -> p
      [] OTHER             -> <<p[1], p[1], p[1], MaxSample>>

\* one pixel of `img` as RGB: the alpha band, if any, is dropped
PixelToRGB(img, p) == SubSeq(PixelToRGBA(img, p), 1, 3)

\* one pixel of `img` as L: ITU-R 601-2 luma, in PIL's fixed point
PixelToL(img, p) ==
    LET c == PixelToRGB(img, p)
    IN  IF img.mode \in {"1", "L", "LA"} THEN <<p[1]>>
        ELSE <<(c[1] * 19595 + c[2] * 38470 + c[3] * 7471 + 32768) \div 65536>>

Convert(img, mode) ==
    Img(mode,
        [i \in 1 .. Len(img.px) |->
            CASE mode = "RGBA" -> PixelToRGBA(img, img.px[i])
              [] mode = "RGB"  -> PixelToRGB(img, img.px[i])
              [] mode = "L"    -> PixelToL(img, img.px[i])],
        NoTrns)

\* load_image_rgb_or_rgba, after Image.open has decoded the file
ModesToRGBA_PaletteOnly == {"P"}

ModesToRGBA == {"P", "LA"}

Normalize(img) ==
    LET img1 == IF img.mode \in ModesToRGBA THEN Convert(img, "RGBA") ELSE img
    IN  IF img1.mode = "RGBA" THEN img1
        ELSE IF img1.mode # "RGB" THEN Convert(img1, "RGB")
        ELSE img1

----------------------------------------------------------------------------
(* Presets and channels *)

ORM == "ORM (R=AO, G=Roughness, B=Metallic)"
MRA == "MRA (R=Metallic, G=Roughness, B=AO)"
RMA == "RMA (R=Roughness, G=Metallic, B=AO)"

PresetNames == {ORM, MRA, RMA}

\* (AO_from, Roughness_from, Metallic_from)
PRESETS(name) ==
    CASE name = ORM -> <<"R", "G", "B">>
      [] name = MRA -> <<"B", "G", "R">>
      [] name = RMA -> <<"B", "R", "G">>

\* Image.split: one single-band image per band
Split(img) ==
    LET n == IF img.px = <<>> THEN 0 ELSE Len(img.px[1])
    IN  [b \in 1 .. n |-> Img("L", [i \in 1 .. Len(img.px) |-> <<img.px[i][b]>>], NoTrns)]

LetterIndex(letter) ==
    CASE letter = "R" -> 1
      [] letter = "G" -> 2
      [] letter = "B" -> 3

channel_by_letter_BGR(img, letter) == SubSeq(Split(img), 1, 3)[4 - LetterIndex(letter)]

channel_by_letter(img, letter) == SubSeq(Split(img), 1, 3)[LetterIndex(letter)]

maybe_invert(ch, do_invert) ==
    IF ~do_invert THEN ch
    ELSE Img(ch.mode, [i \in 1 .. Len(ch.px) |-> <<MaxSample - ch.px[i][1]>>], NoTrns)

----------------------------------------------------------------------------
(* The filesystem.  A path is <<directory, base name, extension>>; the base *)
(* name is a sequence of the parts "_" joins, so that "a_AO" is <<"a","AO">>.*)

RootDir == "in"
SubDir == "in/sub"
ExtDir == "out"

NoErr == "none"
NoPath == <<>>
NoResult == <<NoPath, NoPath, NoPath, NoPath>>
NoFiles == [p \in {} |-> Corrupt]
NoCalls == [p \in {} |-> 0]

\* one more call on path p
OneMore(calls, p) ==
    [q \in DOMAIN calls \cup {p} |->
        IF q # p THEN calls[q] ELSE IF p \in DOMAIN calls THEN calls[p] + 1 ELSE 1]

WriteFile_KeepExisting(f, path, content) ==
    [p \in DOMAIN f \cup {path} |-> IF p \in DOMAIN f THEN f[p] ELSE content]

\* Image.save(out_path): the file is created or replaced
WriteFile(f, path, content) ==
    [p \in DOMAIN f \cup {path} |-> IF p = path THEN content ELSE f[p]]

\* os.makedirs(d, exist_ok=True): the directory and its missing parents
MakeDirs(ds, d) == ds \cup {d} \cup (IF d = SubDir THEN {RootDir} ELSE {})

\* os.path.join(output_dir, f"{base}_{suffix}.png"), base the input's name
\* without its directory and extension
OutputPath(input_path, output_dir, suffix) ==
    <<output_dir, Append(input_path[2], suffix), ".png">>

\* save_grayscale: the file's new content
save_grayscale(ch) == IF ch.mode # "L" THEN Convert(ch, "L") ELSE ch

\* The three channels unpack_orm derives, in the order it saves them
Channels_InvertAO(img, preset_name, invert_roughness, invert_metallic) ==
    LET from == PRESETS(preset_name)
    IN  << maybe_invert(channel_by_letter(img, from[1]), invert_roughness),
           maybe_invert(channel_by_letter(img, from[2]), invert_roughness),
           maybe_invert(channel_by_letter(img, from[3]), invert_metallic) >>

Channels(img, preset_name, invert_roughness, invert_metallic) ==
    LET from == PRESETS(preset_name)
    IN  << channel_by_letter(img, from[1]),
           maybe_invert(channel_by_letter(img, from[2]), invert_roughness),
           maybe_invert(channel_by_letter(img, from[3]), invert_metallic) >>

\* whether unpack_orm saves the height: line 95
WantsHeight(img, export_alpha_as_height) ==
    export_alpha_as_height /\ img.mode = "RGBA"

Raised(f, ds, e, img) ==
    [fs |-> f, dirs |-> ds, err |-> e, result |-> NoResult, img |-> img]

\* unpack_orm on the filesystem (f, ds), read-only directories ro: the
\* filesystem it leaves, the exception it raised and the tuple it returned
UnpackOrm(f, ds, ro, r) ==
    LET ds1 == IF r.out \notin ds THEN MakeDirs(ds, r.out) ELSE ds
        img == Normalize(f[r.input])
        ao_path == OutputPath(r.input, r.out, "AO")
        rough_path == OutputPath(r.input, r.out, "Roughness")
        metal_path == OutputPath(r.input, r.out, "Metallic")
        height_path == OutputPath(r.input, r.out, "Height")
        ch == Channels(img, r.preset, r.ir, r.im)
        f1 == WriteFile(f, ao_path, save_grayscale(ch[1]))
        f2 == WriteFile(f1, rough_path, save_grayscale(ch[2]))
        f3 == WriteFile(f2, metal_path, save_grayscale(ch[3]))
        f4 == WriteFile(f3, height_path, save_grayscale(Split(img)[4]))
    IN  IF r.out \notin ds /\ r.out \in ro THEN Raised(f, ds, "IOError", Corrupt)
        ELSE IF r.input \notin DOMAIN f THEN Raised(f, ds1, "DecodeError", Corrupt)
        ELSE IF f[r.input].kind = "corrupt" THEN Raised(f, ds1, "DecodeError", Corrupt)
        ELSE IF r.preset \notin PresetNames THEN Raised(f, ds1, "UnknownPreset", img)
        ELSE IF r.out \in ro THEN Raised(f, ds1, "IOError", img)
        ELSE IF WantsHeight(img, r.eh)
             THEN [fs |-> f4, dirs |-> ds1, err |-> NoErr, img |-> img,
                   result |-> <<ao_path, rough_path, metal_path, height_path>>]
             ELSE [fs |-> f3, dirs |-> ds1, err |-> NoErr, img |-> img,
                   result |-> <<ao_path, rough_path, metal_path, NoPath>>]

----------------------------------------------------------------------------
(* A single call of unpack_orm *)

InputPath == <<RootDir, <<"a">>, ".tif">>

Request(input, out, preset, ir, im, eh) ==
    [input |-> input, out |-> out, preset |-> preset, ir |-> ir, im |-> im, eh |-> eh]

NoRequest == Request(NoPath, "", "", FALSE, FALSE, FALSE)

\* a preset name that is not a key of PRESETS
BogusPreset == "ARM"

IdleWalk ==
    /\ stack = <<>>
    /\ pending = {}
    /\ discovered = NoCalls
    /\ processed = NoCalls
    /\ firstPath = NoPath
    /\ lastRead = NoFiles
    /\ count = 0
    /\ first = NoResult

Init ==
    /\ \E c \in Images(MaxPix) \cup {Corrupt} :
          fs \in {NoFiles, WriteFile(NoFiles, InputPath, c)}
    /\ dirs \in {{RootDir}, {RootDir, ExtDir}}
    /\ readonly \in {{}, {ExtDir}}
    /\ pc = "idle"
    /\ req = NoRequest
    /\ result = NoResult
    /\ err = NoErr
    /\ loaded = Corrupt
    /\ fs0 = fs
    /\ dirs0 = dirs
    /\ IdleWalk

UnpackOne ==
    /\ pc = "idle"
    /\ \E out \in {RootDir, ExtDir}, preset \in PresetNames \cup {BogusPreset},
          ir \in BOOLEAN, im \in BOOLEAN, eh \in BOOLEAN :
          \E u \in {UnpackOrm(fs, dirs, readonly, Request(InputPath, out, preset, ir, im, eh))} :
              /\ req' = Request(InputPath, out, preset, ir, im, eh)
              /\ fs' = u.fs
              /\ dirs' = u.dirs
              /\ err' = u.err
              /\ loaded' = u.img
              /\ result' = u.result
              /\ pc' = IF u.err = NoErr THEN "returned" ELSE "raised"
    /\ UNCHANGED <<readonly, fs0, dirs0, stack, pending, discovered, processed, firstPath, lastRead, count, first>>

Next == UnpackOne

Spec == Init /\ [][Next]_vars

----------------------------------------------------------------------------
(* The batch: process_texture in batch mode (driver "gui") and run_cli with *)
(* --batch (driver "cli"), over os.walk of RootDir.                         *)

SUPPORTED_EXTS == {".png", ".jpg", ".jpeg", ".tga", ".tif", ".tiff"}

\* str.lower, on the extensions of the model
Lower(ext) ==
    CASE ext = ".PNG" -> ".png"
      [] ext = ".TGA" -> ".tga"
      [] OTHER -> ext

IsSupported_CaseSensitive(path) == path[3] \in SUPPORTED_EXTS

\* os.path.splitext(name)[1].lower() in SUPPORTED_EXTS
IsSupported(path) == Lower(path[3]) \in SUPPORTED_EXTS

\* what the files of a batch's tree hold
BatchContents ==
    { Img("RGB", << <<10, 20, 30>> >>, NoTrns),
      Img("RGBA", << <<200, 100, 50, 40>> >>, NoTrns),
      Corrupt }

\* the places of a tree's files: one base name twice in a directory and
\* once more below it, a second base name, an extension that is not supported
TreePaths ==
    { <<RootDir, <<"a">>, ".png">>, <<RootDir, <<"a">>, ".TGA">>, <<RootDir, <<"b">>, ".txt">>,
      <<SubDir, <<"a">>, ".png">>, <<SubDir, <<"b">>, ".png">> }

ContentsAt(path) == IF IsSupported(path) THEN BatchContents ELSE {Corrupt}

Trees ==
    UNION {[P -> BatchContents] : P \in {Q \in SUBSET TreePaths : Cardinality(Q) <= MaxFiles}}

\* the request templates of a batch: (preset, invert_roughness,
\* invert_metallic, export_alpha_as_height)
BatchTemplates ==
    { <<ORM, FALSE, FALSE, FALSE>>, <<RMA, TRUE, TRUE, TRUE>>, <<MRA, FALSE, TRUE, TRUE>>,
      <<BogusPreset, FALSE, FALSE, FALSE>> }

\* os.walk's listing of directory d: its files, its subdirectories
FilesIn(f, d) == {p \in DOMAIN f : p[1] = d}

SubDirsIn_Cyclic(ds, d) ==
    IF d = RootDir /\ SubDir \in ds THEN <<SubDir>> ELSE <<RootDir>>

SubDirsIn(ds, d) == IF d = RootDir /\ SubDir \in ds THEN <<SubDir>> ELSE <<>>

AfterCall_Isolated(e) == "walking"

\* the loop goes on after a call that returned, and ends on an exception:
\* process_texture's try encloses the loop, run_cli catches nothing
AfterCall(e) == IF e = NoErr THEN "walking" ELSE "failed"

InitBatch ==
    /\ fs \in {t \in Trees : \A p \in DOMAIN t : t[p] \in ContentsAt(p)}
    /\ dirs \in {{RootDir, ExtDir}, {RootDir, SubDir, ExtDir}}
    /\ \A p \in DOMAIN fs : p[1] \in dirs
    /\ readonly \in {{}, {ExtDir}}
    /\ pc = "idle"
    /\ req = NoRequest
    /\ result = NoResult
    /\ err = NoErr
    /\ loaded = Corrupt
    /\ fs0 = fs
    /\ dirs0 = dirs
    /\ IdleWalk

\* process_texture, lines 222-237: nothing is touched before the loop
StartGui ==
    /\ pc = "idle"
    /\ \E out \in {RootDir, SubDir, ExtDir}, t \in BatchTemplates :
          req' = [Request(NoPath, out, t[1], t[2], t[3], t[4]) EXCEPT !.input = <<"gui">>]
    /\ pc' = "walking"
    /\ stack' = <<RootDir>>
    /\ UNCHANGED <<fs, dirs, readonly, result, err, loaded, fs0, dirs0,
                   pending, discovered, processed, firstPath, lastRead, count, first>>

\* run_cli, lines 308-318: argparse admits only the keys of PRESETS, and
\* the output directory is made before the walk
StartCli ==
    /\ pc = "idle"
    /\ \E out \in {RootDir, SubDir, ExtDir}, t \in BatchTemplates :
          /\ t[1] \in PresetNames
          /\ req' = [Request(NoPath, out, t[1], t[2], t[3], t[4]) EXCEPT !.input = <<"cli">>]
          /\ dirs' = MakeDirs(dirs, out)
    /\ pc' = "walking"
    /\ stack' = <<RootDir>>
    /\ UNCHANGED <<fs, readonly, result, err, loaded, fs0, dirs0,
                   pending, discovered, processed, firstPath, lastRead, count, first>>

\* os.walk lists the next directory: its files and subdirectories as they
\* are now
WalkScan ==
    /\ pc = "walking"
    /\ pending = {}
    /\ stack # <<>>
    /\ pending' = FilesIn(fs, Head(stack))
    /\ stack' = SubDirsIn(dirs, Head(stack)) \o Tail(stack)
    /\ UNCHANGED <<fs, dirs, readonly, pc, req, result, err, loaded, fs0, dirs0,
                   discovered, processed, firstPath, lastRead, count, first>>

\* a listed name whose extension is not supported is passed over
SkipFile ==
    /\ pc = "walking"
    /\ \E p \in pending :
          /\ ~IsSupported(p)
          /\ pending' = pending \ {p}
    /\ UNCHANGED <<fs, dirs, readonly, pc, req, result, err, loaded, fs0, dirs0,
                   stack, discovered, processed, firstPath, lastRead, count, first>>

\* the loop body: unpack_orm on the next supported file, in the listing's
\* order, which is any order
ProcessFile ==
    /\ pc = "walking"
    /\ count < MaxCalls
    /\ \E p \in pending :
          /\ IsSupported(p)
          /\ \E u \in {UnpackOrm(fs, dirs, readonly, [req EXCEPT !.input = p])} :
                  /\ fs' = u.fs
                  /\ dirs' = u.dirs
                  /\ err' = u.err
                  /\ loaded' = u.img
                  /\ result' = u.result
                  /\ pc' = AfterCall(u.err)
                  /\ discovered' = OneMore(discovered, p)
                  /\ firstPath' = IF firstPath = NoPath THEN p ELSE firstPath
                  /\ pending' = pending \ {p}
                  /\ IF u.err = NoErr
                     THEN /\ processed' = OneMore(processed, p)
                          /\ lastRead' = [b \in DOMAIN lastRead \cup {p[2]} |->
                                              IF b = p[2] THEN fs[p] ELSE lastRead[b]]
                          /\ count' = count + 1
                          /\ first' = IF req.input = <<"gui">> /\ first = NoResult
                                      THEN u.result ELSE first
                     ELSE UNCHANGED <<processed, lastRead, count, first>>
    /\ UNCHANGED <<readonly, req, fs0, dirs0, stack>>

\* the walk is exhausted: the loop ends and the driver reports the count
WalkEnd ==
    /\ pc = "walking"
    /\ pending = {}
    /\ stack = <<>>
    /\ pc' = "done"
    /\ UNCHANGED <<fs, dirs, readonly, req, result, err, loaded, fs0, dirs0,
                   stack, pending, discovered, processed, firstPath, lastRead, count, first>>

NextBatch == StartGui \/ StartCli \/ WalkScan \/ SkipFile \/ ProcessFile \/ WalkEnd

BatchSpec == InitBatch /\ [][NextBatch]_vars

\* The batches whose end is checked: whether a batch ends does not depend
\* on which image a file holds, so the files of these trees hold one image
\* or cannot be decoded, and every directory can be written.
InitLive ==
    /\ InitBatch
    /\ readonly = {}
    /\ \A p \in DOMAIN fs : fs[p] \in {Img("RGBA", << <<200, 100, 50, 40>> >>, NoTrns), Corrupt}

\* the batch runs on the calling thread until it returns or raises
BatchLive == InitLive /\ [][NextBatch]_vars /\ WF_vars(NextBatch)

----------------------------------------------------------------------------
(* Properties of a single call, under Spec *)

\* the decoded source image of the call, when the input file holds one
HasSource == InputPath \in DOMAIN fs0 /\ fs0[InputPath].kind = "image"
Source == fs0[InputPath]

\* the path the naming contract gives an output
Named(out, base, suffix) == <<out, Append(base, suffix), ".png">>

\* the band of the normalised image each output comes from, per preset
AoBand(preset) == CASE preset = ORM -> 1 [] preset = MRA -> 3 [] preset = RMA -> 3
RoughBand(preset) == CASE preset = ORM -> 2 [] preset = MRA -> 2 [] preset = RMA -> 1
MetalBand(preset) == CASE preset = ORM -> 3 [] preset = MRA -> 1 [] preset = RMA -> 2

\* C1: a call with a preset name that is not registered fails with the
\* unknown-preset error and leaves the filesystem exactly as it was: no
\* directory made, no file written.
C1_UnknownPresetWritesNothing ==
    (pc # "idle" /\ req.preset \notin {ORM, MRA, RMA}) =>
        /\ pc = "raised"
        /\ err = "UnknownPreset"
        /\ fs = fs0
        /\ dirs = dirs0

\* C2: after a call that returned, the AO, Roughness and Metallic files are
\* single-band images as long as the normalised source; every AO pixel is
\* the source's pixel in the preset's AO band, every Roughness and Metallic
\* pixel the source's pixel in the preset's band, or 255 minus it when the
\* output's invert flag is set.
C2_OutputsEqualSourceChannels ==
    pc = "returned" =>
        /\ loaded = Normalize(Source)
        /\ result[1] = Named(req.out, InputPath[2], "AO")
        /\ result[2] = Named(req.out, InputPath[2], "Roughness")
        /\ result[3] = Named(req.out, InputPath[2], "Metallic")
        /\ \A k \in 1 .. 3 :
              /\ result[k] \in DOMAIN fs
              /\ fs[result[k]].kind = "image"
              /\ fs[result[k]].mode = "L"
              /\ Len(fs[result[k]].px) = Len(loaded.px)
        /\ \A i \in 1 .. Len(loaded.px) :
              LET v == loaded.px[i]
                  r == v[RoughBand(req.preset)]
                  m == v[MetalBand(req.preset)]
              IN  /\ fs[result[1]].px[i] = <<v[AoBand(req.preset)]>>
                  /\ fs[result[2]].px[i] = <<IF req.ir THEN 255 - r ELSE r>>
                  /\ fs[result[3]].px[i] = <<IF req.im THEN 255 - m ELSE m>>

\* a call with preset MRA and invert_metallic returned, and its Metallic
\* file holds 245 where the source's red is 10
C2_Witness ==
    /\ pc = "returned"
    /\ req.preset = MRA
    /\ req.im /\ ~req.ir
    /\ Len(loaded.px) = 2
    /\ loaded.px[2][1] = 10
    /\ fs[result[3]].px[2] = <<245>>
    /\ fs[result[1]].px[2] = <<30>>

\* C3: the AO file a call wrote is the AO file the same call would write
\* with any other values of invert_roughness and invert_metallic.
C3_AOIgnoresInvertFlags ==
    pc = "returned" =>
        \A ir2 \in BOOLEAN, im2 \in BOOLEAN :
            LET other == UnpackOrm(fs0, dirs0, readonly, [req EXCEPT !.ir = ir2, !.im = im2])
            IN  /\ other.err = NoErr
                /\ other.result[1] = result[1]
                /\ other.fs[other.result[1]] = fs[result[1]]

\* a call with both invert flags set returned and wrote an AO file that
\* differs from its Roughness file
C3_Witness ==
    /\ pc = "returned"
    /\ req.ir /\ req.im
    /\ fs[result[1]].px # <<>>
    /\ fs[result[1]] # fs[result[2]]

\* whether the source image holds alpha: an alpha band, or a palette with a
\* transparent index
SourceHasAlpha == Source.mode \in AlphaModes \/ Source.trns # NoTrns

\* C4: when the source image has no alpha, a call that returned gave no
\* height path and wrote no _Height.png, whatever export_alpha_as_height.
C4_NoAlphaNoHeight ==
    (pc = "returned" /\ ~SourceHasAlpha) =>
        /\ result[4] = NoPath
        /\ Named(req.out, InputPath[2], "Height") \notin DOMAIN fs

\* C5: when the source image has an alpha band and export_alpha_as_height
\* is set, a call that returned wrote the height file, and it holds the
\* source's alpha band as it is; when the flag is not set it wrote none.
C5_HeightIsAlpha ==
    pc = "returned" =>
        LET height_path == Named(req.out, InputPath[2], "Height")
        IN  /\ (req.eh /\ Source.mode \in AlphaModes) =>
                  /\ result[4] = height_path
                  /\ height_path \in DOMAIN fs
                  /\ fs[height_path].mode = "L"
                  /\ fs[height_path].px =
                        [i \in 1 .. Len(Source.px) |-> <<Source.px[i][Len(Source.px[i])]>>]
            /\ ~req.eh =>
                  /\ result[4] = NoPath
                  /\ height_path \notin DOMAIN fs

----------------------------------------------------------------------------
(* Properties of a batch, under BatchSpec and BatchLive *)

Suffixes == {"AO", "Roughness", "Metallic", "Height"}

\* the extensions of the tree's files that are supported, whatever their case
EligibleExts == {".png", ".PNG", ".TGA", ".tga"}

\* the files a batch has written are the named outputs of calls that returned
OnlyOutputsOfProcessed ==
    /\ \A q \in DOMAIN fs0 : q \in DOMAIN fs /\ fs[q] = fs0[q]
    /\ \A q \in DOMAIN fs \ DOMAIN fs0 :
          \E p \in DOMAIN processed, sfx \in Suffixes : q = Named(req.out, p[2], sfx)

\* the AO, Roughness and Metallic outputs of every base name processed hold
\* what the request derives from the file of that name processed last
OutputsOfLastProcessed ==
    \A p \in DOMAIN processed :
        LET n == Normalize(lastRead[p[2]])
            ao == Named(req.out, p[2], "AO")
            ro == Named(req.out, p[2], "Roughness")
            me == Named(req.out, p[2], "Metallic")
        IN  /\ {ao, ro, me} \subseteq DOMAIN fs
            /\ \A i \in 1 .. Len(n.px) :
                  LET v == n.px[i]
                      r == v[RoughBand(req.preset)]
                      m == v[MetalBand(req.preset)]
                  IN  /\ fs[ao].px[i] = <<v[AoBand(req.preset)]>>
                      /\ fs[ro].px[i] = <<IF req.ir THEN 255 - r ELSE r>>
                      /\ fs[me].px[i] = <<IF req.im THEN 255 - m ELSE m>>
            /\ Len(fs[ao].px) = Len(n.px)
            /\ Len(fs[ro].px) = Len(n.px)
            /\ Len(fs[me].px) = Len(n.px)

\* the state a batch is in once a call has raised
Halted ==
    /\ pc = "failed"
    /\ count = Cardinality(DOMAIN processed)
    /\ Cardinality(DOMAIN discovered) = count + 1
    /\ \A p \in DOMAIN discovered : discovered[p] = 1
    /\ \A p \in DOMAIN processed : processed[p] = 1 /\ p \in DOMAIN discovered
    /\ OnlyOutputsOfProcessed
    /\ OutputsOfLastProcessed

\* C6: the step in which a call of the batch raises ends the batch: the
\* failing file is the last one handed to the loop, it was handed once, the
\* files written are the outputs of the files processed before it, as
\* written, and no step follows.
C6_FailureHalts == [][err = NoErr /\ (err' # NoErr => Halted')]_vars

\* a batch failed after a file was processed, with a directory holding
\* supported files still to be walked
C6_Witness ==
    /\ pc = "failed"
    /\ count >= 1
    /\ stack # <<>>
    /\ \E p \in FilesIn(fs, Head(stack)) : p[3] \in EligibleExts

\* C7: a batch that completed counted the files handed to its loop, each
\* handed once and unpacked once, every one of a supported extension and
\* every supported file of the tree among them; the preview got the result
\* of the first one; a batch that found none counted 0, captured no result
\* and wrote no file.
C7_CountAndFirstResult ==
    pc = "done" =>
        /\ err = NoErr
        /\ count = Cardinality(DOMAIN discovered)
        /\ DOMAIN processed = DOMAIN discovered
        /\ \A p \in DOMAIN discovered :
              discovered[p] = 1 /\ processed[p] = 1 /\ p[3] \in EligibleExts
        /\ \A p \in DOMAIN fs0 : p[3] \in EligibleExts => p \in DOMAIN discovered
        /\ (req.input = <<"gui">> /\ count > 0) =>
              /\ firstPath \in DOMAIN discovered
              /\ first[1] = Named(req.out, firstPath[2], "AO")
              /\ first[2] = Named(req.out, firstPath[2], "Roughness")
              /\ first[3] = Named(req.out, firstPath[2], "Metallic")
              /\ first[4] \in {NoPath, Named(req.out, firstPath[2], "Height")}
        /\ count = 0 =>
              /\ first = NoResult
              /\ firstPath = NoPath
              /\ fs = fs0

\* a batch of the form completed with two files counted, one of them with
\* an upper-case extension, and the first one's result captured
C7_Witness ==
    /\ pc = "done"
    /\ req.input = <<"gui">>
    /\ count = 2
    /\ \E p \in DOMAIN processed : p[3] = ".TGA"
    /\ first # NoResult

\* C8: every file a batch writes is D/base_Suffix.png for the output
\* directory D and the base name of a processed file; the AO, Roughness and
\* Metallic outputs of a base name hold what was derived from the file of
\* that name processed last; and every call that returned is counted.
C8_LastWriteWins ==
    pc # "idle" =>
        /\ OnlyOutputsOfProcessed
        /\ OutputsOfLastProcessed
        /\ count = Cardinality(DOMAIN processed)
        /\ \A p \in DOMAIN processed : processed[p] = 1

\* a batch completed after processing two files of one base name and
\* different content, from different directories
C8_Witness ==
    /\ pc = "done"
    /\ count = 2
    /\ \E p \in DOMAIN processed, q \in DOMAIN processed :
          /\ p[1] # q[1]
          /\ p[2] = q[2]
          /\ fs0[p] # fs0[q]
          /\ lastRead[p[2]] = fs0[p]
          /\ fs[Named(req.out, p[2], "AO")].px # Channels(Normalize(fs0[q]), req.preset, req.ir, req.im)[1].px

\* C10: every batch ends: it completes or it fails.
C10_BatchTerminates == <>(pc \in {"done", "failed"})

\* a batch completed after unpacking an output it had written itself
C10_Witness ==
    /\ pc = "done"
    /\ \E p \in DOMAIN processed : Len(p[2]) = 2 /\ p \notin DOMAIN fs0

\* the cap on the calls of a batch stops no batch: whenever a supported
\* file is waiting, the count is below it
CapNotReached ==
    (pc = "walking" /\ \E p \in pending : IsSupported(p)) => count < MaxCalls

====
